---- MODULE Spec2Model ----
(***************************************************************************)
(* Donor-task integration of todo-api: the read-through cache of           *)
(* app/services/donor_client.py (DonorClient and the module-level _cache), *)
(* the upstream Donor Management service it talks to, and the handlers     *)
(* that run concurrently on one asyncio event loop.  One step of the model *)
(* is one run of a coroutine between two awaits.                           *)
(***************************************************************************)
EXTENDS Integers, Sequences, FiniteSets, TLC

\* ------------------------------------------------------------------------
\* Bounds of the model
\* ------------------------------------------------------------------------
\* Number of request handlers that may run at the same time.
NumProcs == 2
\* Upstream task ids are 1..MaxId.
MaxId == 2
\* The monotonic clock stops advancing here.
MaxClock == 300
\* Handler invocations in one behaviour.
MaxCalls == 2
\* Handler invocations in one behaviour of the fault-free runs (SpecRace).
MaxRaceCalls == 3
\* Tasks the donor DB holds, and handler invocations, in the runs that fill
\* the semaphore of _enrich_contacts (SpecSem).
SemTasks == 21
MaxSemCalls == 2
\* Handler invocations in one behaviour of the audit runs (SpecAudit).
MaxAuditCalls == 3

\* Handler invocations in one behaviour of the mapping runs (SpecMap).
MaxMapCalls == 1

\* Reads in one behaviour of the outage runs (SpecRecover), and how many of
\* them fall into the outage.
MaxRecoverCalls == 3
MaxDownCalls == 1

Procs == 1..NumProcs
Ids == 1..MaxId
\* Time that passes between two readings of the clock; two of the short
\* ones reach the TTL exactly.
Elapse == {0, 150, 300}

\* ------------------------------------------------------------------------
\* Program constants
\* ------------------------------------------------------------------------
CACHE_TTL_SECONDS == 300
\* asyncio.Semaphore(20) of _enrich_contacts
SemaphoreLimit == 20
\* params={"limit": 500} of the list call
ListLimit == 500

\* Python's None, and dict.get with a default.
None == "<None>"
Get(d, k, default) == IF k \in DOMAIN d THEN d[k] ELSE default
\* Truth value of an optional string argument (`if status:`).
Truthy(s) == s # None /\ s # ""

Min(S) == CHOOSE x \in S : \A y \in S : x <= y

\* ------------------------------------------------------------------------
\* Status mapping
\* ------------------------------------------------------------------------
DONOR_TO_GTD_STATUS ==
  [pending |-> "next_action", completed |-> "completed", cancelled |-> "deleted"]

GTD_TO_DONOR_STATUS ==
  [completed |-> "completed", deleted |-> "cancelled"]

\* ------------------------------------------------------------------------
\* Pure helpers
\* ------------------------------------------------------------------------
\* c.get("file_as") or str(c["id"])
ContactName(c) ==
  IF Get(c, "file_as", None) \notin {None, ""} THEN c.file_as ELSE ToString(c.id)

RECURSIVE JoinNames(_)
JoinNames(contacts) ==
  IF Len(contacts) = 1 THEN ContactName(contacts[1])
  ELSE ContactName(contacts[1]) \o " & " \o JoinNames(Tail(contacts))

\* Variant: the separator is appended whether or not there are contacts.
_build_titleAlwaysDash(description, contacts) ==
  description \o " - " \o (IF contacts = <<>> THEN "" ELSE JoinNames(contacts))

_build_title(description, contacts) ==
  IF contacts = <<>> THEN description
  ELSE description \o " - " \o JoinNames(contacts)

\* Variant: the description is read with raw["description"] as the id is.
MapRaisesWithoutDescription(raw) ==
  \/ "id" \notin DOMAIN raw
  \/ "description" \notin DOMAIN raw
  \/ \E i \in 1..Len(Get(raw, "contacts", <<>>)) :
       LET c == raw.contacts[i]
       IN  Get(c, "file_as", None) \in {None, ""} /\ "id" \notin DOMAIN c

\* _map_task raises KeyError when the record has no id, or when a contact
\* has neither a display name nor an id.
MapRaises(raw) ==
  \/ "id" \notin DOMAIN raw
  \/ \E i \in 1..Len(Get(raw, "contacts", <<>>)) :
       LET c == raw.contacts[i]
       IN  Get(c, "file_as", None) \in {None, ""} /\ "id" \notin DOMAIN c

\* Variant: a status outside the table is mapped to None.
_map_taskNullStatus(raw) ==
  [donor_task_id |-> raw.id,
   title         |-> _build_title(Get(raw, "description", ""), Get(raw, "contacts", <<>>)),
   status        |-> Get(DONOR_TO_GTD_STATUS, Get(raw, "status", ""), None),
   donor_status  |-> Get(raw, "status", None),
   task_date     |-> Get(raw, "task_date", None),
   notes         |-> Get(raw, "notes", None),
   is_thank      |-> Get(raw, "is_thank", FALSE),
   source        |-> "donor_db"]

_map_task(raw) ==
  [donor_task_id |-> raw.id,
   title         |-> _build_title(Get(raw, "description", ""), Get(raw, "contacts", <<>>)),
   status        |-> Get(DONOR_TO_GTD_STATUS, Get(raw, "status", ""), "next_action"),
   donor_status  |-> Get(raw, "status", None),
   task_date     |-> Get(raw, "task_date", None),
   notes         |-> Get(raw, "notes", None),
   is_thank      |-> Get(raw, "is_thank", FALSE),
   source        |-> "donor_db"]

\* [_map_task(r) for r in enriched]
MapAll(enriched) == [i \in 1..Len(enriched) |-> _map_task(enriched[i])]

\* [t for t in tasks if t["donor_status"] == status]
RECURSIVE SelectStatus(_, _)
SelectStatus(tasks, status) ==
  IF tasks = <<>> THEN <<>>
  ELSE IF Head(tasks).donor_status = status
       THEN <<Head(tasks)>> \o SelectStatus(Tail(tasks), status)
       ELSE SelectStatus(Tail(tasks), status)

\* Variant: the fresh path selects by the mapped GTD status.
FilterFreshByGtdStatus(tasks, status) ==
  IF Truthy(status)
  THEN SelectSeq(tasks, LAMBDA task : task.status = status)
  ELSE tasks

\* `if status: tasks = [...]`, as written on each of the three return paths.
FilterFresh(tasks, status) ==
  IF Truthy(status) THEN SelectStatus(tasks, status) ELSE tasks
FilterRefreshed(tasks, status) ==
  IF Truthy(status) THEN SelectStatus(tasks, status) ELSE tasks
FilterDegraded(tasks, status) ==
  IF Truthy(status) THEN SelectStatus(tasks, status) ELSE tasks

\* ------------------------------------------------------------------------
\* The upstream Donor Management service
\* ------------------------------------------------------------------------
Absent == "absent"

\* The contacts upstream holds for a task; only the detail call returns them.
ContactsOf(id) ==
  IF id = 1 THEN <<[id |-> 10, file_as |-> "Smith"]>>
  ELSE <<[id |-> 9, file_as |-> None], [id |-> 11, file_as |-> "Doe"]>>

\* GET /api/v1/tasks: a list-level record carries no contacts.
ListRecord(up, id) ==
  [id |-> id, description |-> "Call donor", status |-> up[id],
   task_date |-> "2024-06-01", notes |-> None, is_thank |-> FALSE]

\* GET /api/v1/tasks/{id}: the detail record.
DetailRecord(up, id) ==
  [id |-> id, description |-> "Call donor", status |-> up[id],
   task_date |-> "2024-06-01", notes |-> None, is_thank |-> FALSE,
   contacts |-> ContactsOf(id)]

\* A 200 answer whose body is not a task record (it has no id).
MalformedRecord == [description |-> "Call donor"]

RECURSIVE ListFrom(_, _, _)
ListFrom(up, id, statusParam) ==
  IF id > Len(up) THEN <<>>
  ELSE IF up[id] # Absent /\ (statusParam = None \/ up[id] = statusParam)
       THEN <<ListRecord(up, id)>> \o ListFrom(up, id + 1, statusParam)
       ELSE ListFrom(up, id + 1, statusParam)

\* What upstream answers to a list request: the tasks matching the request's
\* status parameter (all of them when it has none), cut to its limit.
UpstreamList(up, req) ==
  LET all == ListFrom(up, 1, req.status)
  IN  IF Len(all) <= req.limit THEN all ELSE SubSeq(all, 1, req.limit)

NoRequest ==
  [method |-> "", path |-> "", id |-> 0, limit |-> 0, status |-> None, body |-> None]

\* ------------------------------------------------------------------------
\* State
\* ------------------------------------------------------------------------
VARIABLES
  cache,     \* the module-level _cache: tasks, fetched_at, stale
  now,       \* the latest reading of time.monotonic()
  upstream,  \* the donor DB: the status of every task id, or Absent
  proc,      \* the handlers in flight on the event loop, with their locals
  last,      \* history: the call that returned in the step just taken, with
             \* its result (NoReturn when the step returned from no call)
  answer,    \* history: the upstream answer the step just taken consumed
  dirty,     \* history: an update_status succeeded and no fetch_tasks call
             \* has begun since
  calls      \* history: handler invocations so far

vars == <<cache, now, upstream, proc, last, answer, dirty, calls>>

\* Arguments the callers pass.
FilterInputs == {None, "", "pending"}
GtdInputs == {"completed", "deleted", "inbox"}

\* A handler slot with no call in flight.
IdleProc ==
  [pc |-> "idle", op |-> "none", status |-> None, id |-> 0, req |-> NoRequest,
   fo |-> <<>>, sem |-> 0, cached |-> <<>>, cachedAt |-> 0, listCalls |-> 0,
   afterWrite |-> FALSE, route |-> "none"]

\* No report: the call that returned was not check_consistency.
NoReport == [none |-> TRUE]

\* No task: get_task returned None, or the response carries no record.
NoTask == [none |-> TRUE]

\* route, code and body are those of the endpoint the call was made from,
\* when it answers in the same step (code 0: no response yet, or no endpoint).
NoReturn ==
  [op |-> "none", status |-> None, id |-> 0, path |-> "", tasks |-> <<>>,
   ok |-> FALSE, raised |-> FALSE, report |-> NoReport, listCalls |-> 0,
   afterWrite |-> FALSE, task |-> NoTask, route |-> "none", code |-> 0,
   body |-> NoTask]

\* _Cache(): tasks=[], fetched_at=0.0, stale=True
_Cache == [tasks |-> <<>>, fetched_at |-> 0, stale |-> TRUE]

Init ==
  /\ cache = _Cache
  /\ now = 0
  /\ upstream = [id \in Ids |-> IF id = 1 THEN "pending" ELSE "completed"]
  /\ proc = [p \in Procs |-> IdleProc]
  /\ last = NoReturn
  /\ answer = "none"
  /\ dirty = FALSE
  /\ calls = 0

\* time.monotonic(): any reading not before the latest one.
ClockReads(t) == {u \in {t + d : d \in Elapse} : u <= MaxClock}

\* A call is taken by the first free handler slot (the slots are
\* interchangeable).
Free(p) ==
  /\ proc[p].pc = "idle"
  /\ \A q \in Procs : q < p => proc[q].pc # "idle"

\* One more handler invocation, of at most n.
Budget(n) == calls < n /\ calls' = calls + 1

\* ------------------------------------------------------------------------
\* fetch_tasks
\* ------------------------------------------------------------------------
\* Variant: a snapshot exactly CACHE_TTL_SECONDS old still counts as fresh.
IsFreshInclusive(c, t) == ~c.stale /\ (t - c.fetched_at) <= CACHE_TTL_SECONDS

\* not _cache.stale and (now - _cache.fetched_at) < CACHE_TTL_SECONDS
IsFresh(c, t) == ~c.stale /\ (t - c.fetched_at) < CACHE_TTL_SECONDS

\* Variant: the caller's filter is passed on to upstream.
ListRequestFiltered(status) ==
  [method |-> "GET", path |-> "/api/v1/tasks", id |-> 0, limit |-> ListLimit,
   status |-> IF Truthy(status) THEN status ELSE None, body |-> None]

\* client.get("/api/v1/tasks", params={"limit": 500})
ListRequest(status) ==
  [method |-> "GET", path |-> "/api/v1/tasks", id |-> 0, limit |-> ListLimit,
   status |-> None, body |-> None]

\* `return tasks` of fetch_tasks on one of its three paths.
FetchReturns(p, status, path, tasks, listCalls, afterWrite) ==
  /\ proc' = [proc EXCEPT ![p] = IdleProc]
  /\ last' = [NoReturn EXCEPT !.op = "fetch_tasks", !.status = status, !.path = path,
                              !.tasks = tasks, !.listCalls = listCalls,
                              !.afterWrite = afterWrite]

\* The call up to its first await: serve the fresh cache, or send the list
\* request.
FetchCall(p, status, t) ==
  /\ Free(p)
  /\ now' = t
  /\ IF IsFresh(cache, t)
     THEN FetchReturns(p, status, "fresh", FilterFresh(cache.tasks, status), 0, dirty)
     ELSE /\ proc' = [proc EXCEPT ![p] =
                [IdleProc EXCEPT !.pc = "list", !.op = "fetch_tasks", !.status = status,
                                 !.req = ListRequest(status), !.listCalls = 1,
                                 !.afterWrite = dirty]]
          /\ last' = NoReturn
  /\ answer' = "none"
  /\ dirty' = FALSE
  /\ UNCHANGED <<cache, upstream>>

\* Variant: the failed attempt counts as a refresh of the snapshot in force.
DegradeMarksFresh(p) ==
  /\ proc' = [proc EXCEPT ![p] = IdleProc]
  /\ last' = [NoReturn EXCEPT !.op = "fetch_tasks", !.status = proc[p].status,
                              !.path = "degraded",
                              !.tasks = FilterDegraded(cache.tasks, proc[p].status),
                              !.listCalls = proc[p].listCalls,
                              !.afterWrite = proc[p].afterWrite]
  /\ cache' = [cache EXCEPT !.stale = FALSE, !.fetched_at = now]
  /\ UNCHANGED now

\* Variant: the failure is not caught and reaches the caller.
DegradeRaises(p) ==
  /\ proc' = [proc EXCEPT ![p] = IdleProc]
  /\ last' = [NoReturn EXCEPT !.op = "fetch_tasks", !.status = proc[p].status,
                              !.path = "raised", !.raised = TRUE,
                              !.listCalls = proc[p].listCalls,
                              !.afterWrite = proc[p].afterWrite]
  /\ UNCHANGED <<cache, now>>

\* except Exception: serve _cache.tasks as it is now.
Degrade(p) ==
  /\ FetchReturns(p, proc[p].status, "degraded",
                  FilterDegraded(cache.tasks, proc[p].status), proc[p].listCalls,
                  proc[p].afterWrite)
  /\ UNCHANGED <<cache, now>>

\* Variant: the timestamp and the flag are written before the records are
\* mapped.
StoreAndReturnStampFirst(p, enriched, t) ==
  IF \E i \in 1..Len(enriched) : MapRaises(enriched[i])
  THEN /\ now' = t
       /\ cache' = [cache EXCEPT !.fetched_at = t, !.stale = FALSE]
       /\ FetchReturns(p, proc[p].status, "degraded",
                       FilterDegraded(cache.tasks, proc[p].status), proc[p].listCalls,
                       proc[p].afterWrite)
  ELSE LET mapped == MapAll(enriched)
       IN  /\ now' = t
           /\ cache' = [tasks |-> mapped, fetched_at |-> t, stale |-> FALSE]
           /\ FetchReturns(p, proc[p].status, "refreshed",
                           FilterRefreshed(mapped, proc[p].status), proc[p].listCalls,
                           proc[p].afterWrite)

\* Variant: the records are appended to the old snapshot one refresh at a
\* time instead of replacing it.
StoreAndReturnAppends(p, enriched, t) ==
  IF \E i \in 1..Len(enriched) : MapRaises(enriched[i])
  THEN Degrade(p)
  ELSE LET mapped == MapAll(enriched)
           merged == SelectSeq(cache.tasks,
                       LAMBDA old : \A i \in 1..Len(mapped) :
                                      mapped[i].donor_task_id # old.donor_task_id)
                     \o mapped
       IN  /\ now' = t
           /\ cache' = [tasks |-> merged, fetched_at |-> t, stale |-> FALSE]
           /\ FetchReturns(p, proc[p].status, "refreshed",
                           FilterRefreshed(merged, proc[p].status), proc[p].listCalls,
                           proc[p].afterWrite)

\* Lines 128-137: map every enriched record, replace the snapshot, return.
\* A record that cannot be mapped raises before the cache is touched.
StoreAndReturn(p, enriched, t) ==
  IF \E i \in 1..Len(enriched) : MapRaises(enriched[i])
  THEN Degrade(p)
  ELSE LET mapped == MapAll(enriched)
       IN  /\ now' = t
           /\ cache' = [tasks |-> mapped, fetched_at |-> t, stale |-> FALSE]
           /\ FetchReturns(p, proc[p].status, "refreshed",
                           FilterRefreshed(mapped, proc[p].status), proc[p].listCalls,
                           proc[p].afterWrite)

\* The list call fails: transport error, or raise_for_status on a non-2xx.
FetchListFails(p) ==
  /\ proc[p].pc = "list"
  /\ Degrade(p)
  /\ answer' = "list_error"
  /\ UNCHANGED <<upstream, dirty, calls>>

\* The list call answers 200.  _enrich_contacts makes its semaphore and one
\* _fetch_one task per listed record; with an empty list gather() is done
\* at once and the snapshot is written in the same run.
FetchListOk(p, t) ==
  /\ proc[p].pc = "list"
  /\ LET raw_list == UpstreamList(upstream, proc[p].req)
     IN  IF raw_list = <<>>
         THEN StoreAndReturn(p, <<>>, t)
         ELSE /\ proc' = [proc EXCEPT
                    ![p].pc = "gather", ![p].req = NoRequest,
                    ![p].fo = [i \in 1..Len(raw_list) |->
                                 [st |-> "wait", how |-> "", id |-> raw_list[i].id,
                                  val |-> raw_list[i]]],
                    ![p].sem = SemaphoreLimit]
              /\ last' = NoReturn
              /\ t = now
              /\ UNCHANGED <<cache, now>>
  /\ answer' = "list_200"
  /\ UNCHANGED <<upstream, dirty, calls>>

Waiting(p) == {i \in 1..Len(proc[p].fo) : proc[p].fo[i].st = "wait"}
InFlight(p) == {i \in 1..Len(proc[p].fo) : proc[p].fo[i].st = "fly"}

\* Slot i after the first k waiting _fetch_one tasks, in list order, have
\* entered `async with sem` and sent client.get(f"/api/v1/tasks/{task['id']}").
Entered(fo, k) ==
  LET waiting == {i \in 1..Len(fo) : fo[i].st = "wait"}
  IN  [i \in 1..Len(fo) |->
         IF i \in waiting /\ Cardinality({j \in waiting : j < i}) < k
         THEN [fo[i] EXCEPT !.st = "fly"] ELSE fo[i]]

\* Variant: no semaphore, every _fetch_one sends its request at once.
EnrichStartUnbounded(p) ==
  /\ proc[p].pc = "gather"
  /\ proc' = [proc EXCEPT ![p].pc = "enrich",
                          ![p].fo = Entered(proc[p].fo, Len(proc[p].fo)),
                          ![p].sem = 0]
  /\ last' = NoReturn
  /\ answer' = "none"
  /\ UNCHANGED <<cache, now, upstream, dirty, calls>>

\* The tasks gather() made run for the first time, one after the other with
\* nothing in between: each takes the semaphore if it is free and sends its
\* detail request, the others queue on the semaphore.
EnrichStart(p) ==
  /\ proc[p].pc = "gather"
  /\ LET k == IF Len(proc[p].fo) <= proc[p].sem THEN Len(proc[p].fo) ELSE proc[p].sem
     IN  proc' = [proc EXCEPT ![p].pc = "enrich",
                              ![p].fo = Entered(proc[p].fo, k),
                              ![p].sem = proc[p].sem - k]
  /\ last' = NoReturn
  /\ answer' = "none"
  /\ UNCHANGED <<cache, now, upstream, dirty, calls>>

\* A released semaphore wakes its waiters first come first served: the
\* first queued _fetch_one takes it and sends its detail request.
WaiterStart(p) ==
  /\ proc[p].pc = "enrich"
  /\ Waiting(p) # {}
  /\ proc[p].sem > 0
  /\ proc' = [proc EXCEPT ![p].fo = Entered(proc[p].fo, 1),
                          ![p].sem = proc[p].sem - 1]
  /\ last' = NoReturn
  /\ answer' = "none"
  /\ UNCHANGED <<cache, now, upstream, dirty, calls>>

\* Answers upstream can give to a detail request.
DetailKinds == {"200", "non200", "exception", "malformed"}

\* Variant: a failed detail fetch is not caught in _fetch_one and fails the
\* whole refresh.
DetailReplyAborts(p, i, kind) ==
  /\ proc[p].pc = "enrich"
  /\ i \in InFlight(p)
  /\ kind = "200" => upstream[proc[p].fo[i].val.id] # Absent
  /\ IF kind \in {"non200", "exception"}
     THEN Degrade(p)
     ELSE LET task == proc[p].fo[i].val
              slot == [proc[p].fo[i] EXCEPT
                         !.st = "done", !.how = "detail",
                         !.val = IF kind = "200" THEN DetailRecord(upstream, task.id)
                                 ELSE MalformedRecord]
              fo == [proc[p].fo EXCEPT ![i] = slot]
          IN  /\ proc' = [proc EXCEPT
                    ![p].fo = fo,
                    ![p].sem = proc[p].sem + 1,
                    ![p].pc = IF \A j \in 1..Len(fo) : fo[j].st = "done"
                              THEN "finish" ELSE "enrich"]
              /\ last' = NoReturn
              /\ UNCHANGED <<cache, now>>
  /\ answer' = "detail_" \o kind
  /\ UNCHANGED <<upstream, dirty, calls>>

\* _fetch_one resumes with the answer: a 200 gives resp.json(), anything
\* else gives the list-level record back; the semaphore is released.  When
\* the last one returns, gather is done.
DetailReply(p, i, kind) ==
  /\ proc[p].pc = "enrich"
  /\ i \in InFlight(p)
  /\ kind = "200" => upstream[proc[p].fo[i].val.id] # Absent
  /\ LET task == proc[p].fo[i].val
         slot == CASE kind = "200" ->
                        [proc[p].fo[i] EXCEPT !.st = "done", !.how = "detail",
                                              !.val = DetailRecord(upstream, task.id)]
                   [] kind = "malformed" ->
                        [proc[p].fo[i] EXCEPT !.st = "done", !.how = "detail",
                                              !.val = MalformedRecord]
                   [] OTHER ->
                        [proc[p].fo[i] EXCEPT !.st = "done", !.how = "fallback"]
         fo == [proc[p].fo EXCEPT ![i] = slot]
     IN  proc' = [proc EXCEPT
           ![p].fo = fo,
           ![p].sem = proc[p].sem + 1,
           ![p].pc = IF \A j \in 1..Len(fo) : fo[j].st = "done"
                     THEN "finish" ELSE "enrich"]
  /\ last' = NoReturn
  /\ answer' = "detail_" \o kind
  /\ UNCHANGED <<cache, now, upstream, dirty, calls>>

Enriched(p) == [i \in 1..Len(proc[p].fo) |-> proc[p].fo[i].val]

\* fetch_tasks resumes after `await self._enrich_contacts(...)`.
FetchFinish(p, t) ==
  /\ proc[p].pc = "finish"
  /\ StoreAndReturn(p, Enriched(p), t)
  /\ answer' = "none"
  /\ UNCHANGED <<upstream, dirty, calls>>

\* ------------------------------------------------------------------------
\* update_status
\* ------------------------------------------------------------------------
\* Variant: every status goes through the generic update call.
WriteRequestAlwaysPut(id, donor_status) ==
  [method |-> "PUT", path |-> "/api/v1/tasks/{id}", id |-> id,
   limit |-> 0, status |-> None, body |-> donor_status]

WriteRequest(id, donor_status) ==
  IF donor_status = "completed"
  THEN [method |-> "POST", path |-> "/api/v1/tasks/{id}/complete", id |-> id,
        limit |-> 0, status |-> None, body |-> None]
  ELSE [method |-> "PUT", path |-> "/api/v1/tasks/{id}", id |-> id,
        limit |-> 0, status |-> None, body |-> donor_status]

\* `return True` / `return False` of update_status.
UpdateReturns(p, id, new_gtd_status, path, ok) ==
  /\ proc' = [proc EXCEPT ![p] = IdleProc]
  /\ last' = [NoReturn EXCEPT !.op = "update_status", !.status = new_gtd_status,
                              !.id = id, !.path = path, !.ok = ok]

\* Variant: a status with no upstream equivalent is sent upstream as it is.
UpdateCallForwards(p, id, new_gtd_status) ==
  /\ Free(p)
  /\ proc' = [proc EXCEPT ![p] =
        [IdleProc EXCEPT !.pc = "write", !.op = "update_status", !.id = id,
                         !.status = new_gtd_status,
                         !.req = WriteRequest(id, Get(GTD_TO_DONOR_STATUS,
                                                      new_gtd_status, new_gtd_status))]]
  /\ last' = NoReturn
  /\ answer' = "none"
  /\ UNCHANGED <<cache, now, upstream, dirty>>

UpdateCall(p, id, new_gtd_status) ==
  /\ Free(p)
  /\ LET donor_status == Get(GTD_TO_DONOR_STATUS, new_gtd_status, None)
     IN  IF donor_status = None
         THEN UpdateReturns(p, id, new_gtd_status, "unsupported", FALSE)
         ELSE /\ proc' = [proc EXCEPT ![p] =
                    [IdleProc EXCEPT !.pc = "write", !.op = "update_status", !.id = id,
                                     !.status = new_gtd_status,
                                     !.req = WriteRequest(id, donor_status)]]
              /\ last' = NoReturn
  /\ answer' = "none"
  /\ UNCHANGED <<cache, now, upstream, dirty>>

\* What the write does upstream.
UpstreamWrite(up, req) ==
  [up EXCEPT ![req.id] = IF req.method = "POST" THEN "completed" ELSE req.body]

\* Variant: a successful write leaves the cache as it is.
InvalidateNothing(c) == c

\* Line 204, after raise_for_status passed.
Invalidate(c) == [c EXCEPT !.stale = TRUE]

\* The write answers 2xx.
UpdateOk(p) ==
  /\ proc[p].pc = "write"
  /\ upstream[proc[p].req.id] # Absent
  /\ upstream' = UpstreamWrite(upstream, proc[p].req)
  /\ cache' = Invalidate(cache)
  /\ UpdateReturns(p, proc[p].id, proc[p].status, "written", TRUE)
  /\ answer' = "write_2xx"
  /\ dirty' = TRUE
  /\ UNCHANGED <<now, calls>>

\* Variant: the cache is marked stale before the answer is examined.
UpdateFailsInvalidates(p) ==
  /\ proc[p].pc = "write"
  /\ cache' = Invalidate(cache)
  /\ UpdateReturns(p, proc[p].id, proc[p].status, "write_failed", FALSE)
  /\ answer' = "write_error"
  /\ UNCHANGED <<now, upstream, dirty, calls>>

\* The write fails: transport error or a non-2xx answer (404 for an id
\* upstream does not hold).
UpdateFails(p) ==
  /\ proc[p].pc = "write"
  /\ UpdateReturns(p, proc[p].id, proc[p].status, "write_failed", FALSE)
  /\ answer' = "write_error"
  /\ UNCHANGED <<cache, now, upstream, dirty, calls>>

\* ------------------------------------------------------------------------
\* get_task and GET /donor-tasks/{id}
\* ------------------------------------------------------------------------
\* client.get(f"/api/v1/tasks/{donor_task_id}")
DetailRequest(id) ==
  [method |-> "GET", path |-> "/api/v1/tasks/{id}", id |-> id, limit |-> 0,
   status |-> None, body |-> None]

\* Answers upstream can give to the detail request of get_task: the record,
\* 404 for an id it does not hold, another error status, no answer at all
\* (network error, timeout), or a 200 whose body is no task record.
GetKinds == {"200", "404", "non2xx", "exception", "malformed"}

AnswerPossible(kind, up, id) ==
  /\ kind = "200" => up[id] # Absent
  /\ kind = "404" => up[id] = Absent

\* What get_task returns: None on a 404, None when raise_for_status or
\* _map_task raises or the call itself fails, the mapped record otherwise.
GetTaskResult(kind, up, id) ==
  CASE kind = "404" -> NoTask
    [] kind = "200" -> _map_task(DetailRecord(up, id))
    [] kind = "malformed" ->
         IF MapRaises(MalformedRecord) THEN NoTask ELSE _map_task(MalformedRecord)
    [] OTHER -> NoTask

\* Variant: a task the fresh cache holds is answered from the cache.
GetCallCached(p, id) ==
  /\ Free(p)
  /\ LET hits == {i \in 1..Len(cache.tasks) : cache.tasks[i].donor_task_id = id}
     IN  IF IsFresh(cache, now) /\ hits # {}
         THEN /\ proc' = [proc EXCEPT ![p] = IdleProc]
              /\ last' = [NoReturn EXCEPT
                             !.op = "get_task", !.id = id, !.route = "get", !.code = 200,
                             !.task = cache.tasks[CHOOSE i \in hits : TRUE],
                             !.body = cache.tasks[CHOOSE i \in hits : TRUE]]
         ELSE /\ proc' = [proc EXCEPT ![p] =
                    [IdleProc EXCEPT !.pc = "get", !.op = "get_task", !.route = "get",
                                     !.id = id, !.req = DetailRequest(id)]]
              /\ last' = NoReturn
  /\ answer' = "none"
  /\ UNCHANGED <<cache, now, upstream, dirty>>

\* get_donor_task up to the await inside get_task.
GetCall(p, id) ==
  /\ Free(p)
  /\ proc' = [proc EXCEPT ![p] =
        [IdleProc EXCEPT !.pc = "get", !.op = "get_task", !.route = "get", !.id = id,
                         !.req = DetailRequest(id)]]
  /\ last' = NoReturn
  /\ answer' = "none"
  /\ UNCHANGED <<cache, now, upstream, dirty>>

\* get_task returns and get_donor_task answers: 404 when it got None.
GetReply(p, kind) ==
  /\ proc[p].pc = "get"
  /\ AnswerPossible(kind, upstream, proc[p].id)
  /\ LET task == GetTaskResult(kind, upstream, proc[p].id)
     IN  last' = [NoReturn EXCEPT !.op = "get_task", !.id = proc[p].id,
                                 !.task = task, !.route = "get",
                                 !.code = IF task = NoTask THEN 404 ELSE 200,
                                 !.body = task]
  /\ proc' = [proc EXCEPT ![p] = IdleProc]
  /\ answer' = "get_" \o kind
  /\ UNCHANGED <<cache, now, upstream, dirty, calls>>

\* ------------------------------------------------------------------------
\* PATCH /donor-tasks/{id}/status
\* ------------------------------------------------------------------------
\* Variant: the record carries the local status as its upstream status.
SynthesizedTaskLocalStatus(id, status) ==
  [donor_task_id |-> id,
   title         |-> "",
   status        |-> status,
   donor_status  |-> status,
   task_date     |-> None,
   notes         |-> None,
   is_thank      |-> FALSE,
   source        |-> "donor_db"]

\* The record update_donor_task_status builds when the re-fetch gave None.
SynthesizedTask(id, status) ==
  [donor_task_id |-> id,
   title         |-> "",
   status        |-> status,
   donor_status  |-> Get(GTD_TO_DONOR_STATUS, status, status),
   task_date     |-> None,
   notes         |-> None,
   is_thank      |-> FALSE,
   source        |-> "donor_db"]

\* The values the endpoint accepts: body.status in ("completed", "deleted").
PatchAccepts(status) == status \in {"completed", "deleted"}

\* update_donor_task_status up to the await inside update_status: 422 for a
\* status it does not accept; 502 when update_status knows no upstream
\* status for it; otherwise the write is sent.
PatchCall(p, id, status) ==
  /\ Free(p)
  /\ LET donor_status == Get(GTD_TO_DONOR_STATUS, status, None)
     IN  IF ~PatchAccepts(status)
         THEN /\ proc' = [proc EXCEPT ![p] = IdleProc]
              /\ last' = [NoReturn EXCEPT !.status = status, !.id = id,
                                          !.path = "rejected", !.route = "patch",
                                          !.code = 422]
         ELSE IF donor_status = None
         THEN /\ proc' = [proc EXCEPT ![p] = IdleProc]
              /\ last' = [NoReturn EXCEPT !.op = "update_status", !.status = status,
                                          !.id = id, !.path = "unsupported",
                                          !.route = "patch", !.code = 502]
         ELSE /\ proc' = [proc EXCEPT ![p] =
                    [IdleProc EXCEPT !.pc = "patch_write", !.op = "update_status",
                                     !.route = "patch", !.id = id, !.status = status,
                                     !.req = WriteRequest(id, donor_status)]]
              /\ last' = NoReturn
  /\ answer' = "none"
  /\ UNCHANGED <<cache, now, upstream, dirty>>

\* The write answers 2xx: update_status marks the cache stale and returns
\* True, and the endpoint goes on to re-fetch the task.
PatchWriteOk(p) ==
  /\ proc[p].pc = "patch_write"
  /\ upstream[proc[p].req.id] # Absent
  /\ upstream' = UpstreamWrite(upstream, proc[p].req)
  /\ cache' = Invalidate(cache)
  /\ proc' = [proc EXCEPT ![p].pc = "patch_refetch", ![p].op = "get_task",
                          ![p].req = DetailRequest(proc[p].id)]
  /\ last' = [NoReturn EXCEPT !.op = "update_status", !.status = proc[p].status,
                              !.id = proc[p].id, !.path = "written", !.ok = TRUE,
                              !.route = "patch"]
  /\ answer' = "write_2xx"
  /\ dirty' = TRUE
  /\ UNCHANGED <<now, calls>>

\* Variant: the endpoint ignores what update_status returned and goes on to
\* the re-fetch.
PatchWriteFailsMasked(p) ==
  /\ proc[p].pc = "patch_write"
  /\ proc' = [proc EXCEPT ![p].pc = "patch_refetch", ![p].op = "get_task",
                          ![p].req = DetailRequest(proc[p].id)]
  /\ last' = [NoReturn EXCEPT !.op = "update_status", !.status = proc[p].status,
                              !.id = proc[p].id, !.path = "write_failed",
                              !.route = "patch"]
  /\ answer' = "write_error"
  /\ UNCHANGED <<cache, now, upstream, dirty, calls>>

\* The write fails: update_status returns False and the endpoint answers 502.
PatchWriteFails(p) ==
  /\ proc[p].pc = "patch_write"
  /\ proc' = [proc EXCEPT ![p] = IdleProc]
  /\ last' = [NoReturn EXCEPT !.op = "update_status", !.status = proc[p].status,
                              !.id = proc[p].id, !.path = "write_failed",
                              !.route = "patch", !.code = 502]
  /\ answer' = "write_error"
  /\ UNCHANGED <<cache, now, upstream, dirty, calls>>

\* The re-fetch returns: the endpoint answers 200 with the re-fetched record,
\* or with the synthesized one when get_task gave None.
PatchRefetchReply(p, kind) ==
  /\ proc[p].pc = "patch_refetch"
  /\ AnswerPossible(kind, upstream, proc[p].id)
  /\ LET task == GetTaskResult(kind, upstream, proc[p].id)
     IN  last' = [NoReturn EXCEPT
                    !.op = "get_task", !.id = proc[p].id, !.status = proc[p].status,
                    !.task = task, !.route = "patch", !.code = 200,
                    !.body = IF task = NoTask
                             THEN SynthesizedTask(proc[p].id, proc[p].status)
                             ELSE task]
  /\ proc' = [proc EXCEPT ![p] = IdleProc]
  /\ answer' = "get_" \o kind
  /\ UNCHANGED <<cache, now, upstream, dirty, calls>>

\* ------------------------------------------------------------------------
\* check_consistency
\* ------------------------------------------------------------------------
\* `return {...}` of check_consistency.
ConsistencyReturns(p, path, report) ==
  /\ proc' = [proc EXCEPT ![p] = IdleProc]
  /\ last' = [NoReturn EXCEPT !.op = "check_consistency", !.path = path,
                              !.report = report]

\* The call up to its await: without a valid, non-empty snapshot there is
\* nothing to compare; otherwise index the snapshot by id and send the list
\* request.
\* cachedAt remembers the timestamp of the snapshot that was
\* indexed (the code keeps no copy of it).
ConsistencyCall(p) ==
  /\ Free(p)
  /\ IF cache.stale \/ cache.tasks = <<>>
     THEN ConsistencyReturns(p, "no_baseline",
            [cache_populated |-> FALSE, checked_count |-> 0, inconsistencies |-> <<>>,
             message |-> "Cache not yet populated; no baseline to compare."])
     ELSE /\ proc' = [proc EXCEPT ![p] =
                [IdleProc EXCEPT !.pc = "check", !.op = "check_consistency",
                                 !.req = ListRequest(None), !.cached = cache.tasks,
                                 !.cachedAt = cache.fetched_at]]
          /\ last' = NoReturn
  /\ answer' = "none"
  /\ UNCHANGED <<cache, now, upstream, dirty>>

\* Variant: a failed live call is taken for an empty live list.
ConsistencyListFailsAsEmpty(p) ==
  /\ proc[p].pc = "check"
  /\ ConsistencyReturns(p, "live_failed",
        [cache_populated |-> TRUE, checked_count |-> 0,
         inconsistencies |-> [i \in 1..Len(proc[p].cached) |->
                                [donor_task_id |-> proc[p].cached[i].donor_task_id,
                                 cached_status |-> proc[p].cached[i].status,
                                 live_status |-> "missing_from_live"]],
         error |-> "str(exc)"])
  /\ answer' = "live_error"
  /\ UNCHANGED <<cache, now, upstream, dirty, calls>>

\* Variant: the failure of the live call leaves check_consistency as an
\* exception.
ConsistencyListFailsRaises(p) ==
  /\ proc[p].pc = "check"
  /\ proc' = [proc EXCEPT ![p] = IdleProc]
  /\ last' = [NoReturn EXCEPT !.op = "check_consistency", !.path = "raised",
                              !.raised = TRUE]
  /\ answer' = "live_error"
  /\ UNCHANGED <<cache, now, upstream, dirty, calls>>

\* The live list call fails.
ConsistencyListFails(p) ==
  /\ proc[p].pc = "check"
  /\ ConsistencyReturns(p, "live_failed",
        [cache_populated |-> TRUE, checked_count |-> 0, inconsistencies |-> <<>>,
         error |-> "str(exc)"])
  /\ answer' = "live_error"
  /\ UNCHANGED <<cache, now, upstream, dirty, calls>>

\* cached_by_id: the cached tasks under their ids (a later task replaces an
\* earlier one of the same id); cached_by_id.get(task_id) is None for an id
\* outside its keys.
CachedIds(cached) == {cached[i].donor_task_id : i \in 1..Len(cached)}
CachedById(cached, id) ==
  LET hits == {i \in 1..Len(cached) : cached[i].donor_task_id = id}
  IN  cached[CHOOSE i \in hits : \A j \in hits : j <= i]

\* Variant: the live upstream status is compared unmapped.
RECURSIVE StatusDriftUnmapped(_, _)
StatusDriftUnmapped(live_list, cached) ==
  IF live_list = <<>> THEN <<>>
  ELSE LET live == Head(live_list)
           live_status == Get(live, "status", "")
       IN  (IF /\ live.id \in CachedIds(cached)
               /\ CachedById(cached, live.id).status # live_status
            THEN <<[donor_task_id |-> live.id,
                    cached_status |-> CachedById(cached, live.id).status,
                    live_status |-> live_status]>>
            ELSE <<>>)
           \o StatusDriftUnmapped(Tail(live_list), cached)

\* The first loop: a listed task whose mapped status differs from the
\* cached one.
RECURSIVE StatusDrift(_, _)
StatusDrift(live_list, cached) ==
  IF live_list = <<>> THEN <<>>
  ELSE LET live == Head(live_list)
           live_gtd_status ==
             Get(DONOR_TO_GTD_STATUS, Get(live, "status", ""), "next_action")
       IN  (IF /\ live.id \in CachedIds(cached)
               /\ CachedById(cached, live.id).status # live_gtd_status
            THEN <<[donor_task_id |-> live.id,
                    cached_status |-> CachedById(cached, live.id).status,
                    live_status |-> live_gtd_status]>>
            ELSE <<>>)
           \o StatusDrift(Tail(live_list), cached)

\* Variant: the membership test of the second loop is inverted.
RECURSIVE MissingFromLiveInverted(_, _)
MissingFromLiveInverted(cached, live_list) ==
  IF cached = <<>> THEN <<>>
  ELSE (IF \E i \in 1..Len(live_list) : live_list[i].id = Head(cached).donor_task_id
        THEN <<[donor_task_id |-> Head(cached).donor_task_id,
                cached_status |-> Head(cached).status,
                live_status |-> "missing_from_live"]>>
        ELSE <<>>)
       \o MissingFromLiveInverted(Tail(cached), live_list)

\* The second loop: a cached task the live list does not hold.
RECURSIVE MissingFromLive(_, _)
MissingFromLive(cached, live_list) ==
  IF cached = <<>> THEN <<>>
  ELSE (IF \A i \in 1..Len(live_list) : live_list[i].id # Head(cached).donor_task_id
        THEN <<[donor_task_id |-> Head(cached).donor_task_id,
                cached_status |-> Head(cached).status,
                live_status |-> "missing_from_live"]>>
        ELSE <<>>)
       \o MissingFromLive(Tail(cached), live_list)

\* Variant: the live list that was just read is put into the cache.
ConsistencyListOkStores(p, t) ==
  /\ proc[p].pc = "check"
  /\ LET live_list == UpstreamList(upstream, proc[p].req)
     IN  /\ ConsistencyReturns(p, "compared",
              [cache_populated |-> TRUE,
               cache_age_seconds |-> t - cache.fetched_at,
               checked_count |-> Len(live_list),
               inconsistencies |-> StatusDrift(live_list, proc[p].cached)
                                   \o MissingFromLive(proc[p].cached, live_list)])
         /\ cache' = [tasks |-> MapAll(live_list), fetched_at |-> t, stale |-> FALSE]
  /\ now' = t
  /\ answer' = "live_200"
  /\ UNCHANGED <<upstream, dirty, calls>>

\* The live list call answers 200: compare and report.  The age is taken
\* from the cache as it is now.
ConsistencyListOk(p, t) ==
  /\ proc[p].pc = "check"
  /\ LET live_list == UpstreamList(upstream, proc[p].req)
     IN  ConsistencyReturns(p, "compared",
           [cache_populated |-> TRUE,
            cache_age_seconds |-> t - cache.fetched_at,
            checked_count |-> Len(live_list),
            inconsistencies |-> StatusDrift(live_list, proc[p].cached)
                                \o MissingFromLive(proc[p].cached, live_list)])
  /\ now' = t
  /\ answer' = "live_200"
  /\ UNCHANGED <<cache, upstream, dirty, calls>>

\* ------------------------------------------------------------------------
\* Environment
\* ------------------------------------------------------------------------
\* Somebody else removes the newest task from the donor DB.
UpstreamChange ==
  /\ \E id \in Ids :
       /\ upstream[id] # Absent
       /\ \A j \in Ids : j > id => upstream[j] = Absent
       /\ upstream' = [upstream EXCEPT ![id] = Absent]
  /\ last' = NoReturn
  /\ answer' = "none"
  /\ UNCHANGED <<cache, now, proc, dirty, calls>>

Next ==
  \/ \E p \in Procs, status \in FilterInputs, t \in ClockReads(now) :
       Budget(MaxCalls) /\ FetchCall(p, status, t)
  \/ \E p \in Procs : FetchListFails(p)
  \/ \E p \in Procs, t \in ClockReads(now) : FetchListOk(p, t)
  \/ \E p \in Procs : EnrichStart(p)
  \/ \E p \in Procs, i \in Ids, kind \in DetailKinds : DetailReply(p, i, kind)
  \/ \E p \in Procs, t \in ClockReads(now) : FetchFinish(p, t)
  \/ \E p \in Procs, id \in Ids, s \in GtdInputs :
       Budget(MaxCalls) /\ UpdateCall(p, id, s)
  \/ \E p \in Procs : UpdateOk(p)
  \/ \E p \in Procs : UpdateFails(p)
  \/ \E p \in Procs : Budget(MaxCalls) /\ ConsistencyCall(p)
  \/ \E p \in Procs : ConsistencyListFails(p)
  \/ \E p \in Procs, t \in ClockReads(now) : ConsistencyListOk(p, t)
  \/ \E p \in Procs, id \in Ids : Budget(MaxCalls) /\ GetCall(p, id)
  \/ \E p \in Procs, kind \in GetKinds : GetReply(p, kind)
  \/ \E p \in Procs, id \in Ids, s \in GtdInputs :
       Budget(MaxCalls) /\ PatchCall(p, id, s)
  \/ \E p \in Procs : PatchWriteOk(p)
  \/ \E p \in Procs : PatchWriteFails(p)
  \/ \E p \in Procs, kind \in GetKinds : PatchRefetchReply(p, kind)
  \/ UpstreamChange

Spec == Init /\ [][Next]_vars

\* The fault-free runs: every upstream call succeeds, nobody else changes the
\* donor DB, no time passes; the callers read unfiltered, complete tasks and
\* check consistency.
NextRace ==
  \/ \E p \in Procs : Budget(MaxRaceCalls) /\ FetchCall(p, None, now)
  \/ \E p \in Procs : FetchListOk(p, now)
  \/ \E p \in Procs : EnrichStart(p)
  \/ \E p \in Procs, i \in Ids : DetailReply(p, i, "200")
  \/ \E p \in Procs : FetchFinish(p, now)
  \/ \E p \in Procs, id \in Ids : Budget(MaxRaceCalls) /\ UpdateCall(p, id, "completed")
  \/ \E p \in Procs : UpdateOk(p)
  \/ \E p \in Procs : Budget(MaxRaceCalls) /\ ConsistencyCall(p)
  \/ \E p \in Procs : ConsistencyListOk(p, now)

SpecRace == Init /\ [][NextRace]_vars

\* Overlapping calls while time passes and tasks leave the donor DB: every
\* list call succeeds, a detail call fails only for a task that is gone; the
\* callers read unfiltered and check consistency.
NextOverlap ==
  \/ \E p \in Procs, t \in ClockReads(now) :
       Budget(MaxRaceCalls) /\ FetchCall(p, None, t)
  \/ \E p \in Procs : FetchListOk(p, now)
  \/ \E p \in Procs : EnrichStart(p)
  \/ \E p \in Procs, i \in Ids :
       /\ i \in InFlight(p)
       /\ DetailReply(p, i, IF upstream[proc[p].fo[i].id] = Absent THEN "non200" ELSE "200")
  \/ \E p \in Procs : FetchFinish(p, now)
  \/ \E p \in Procs : Budget(MaxRaceCalls) /\ ConsistencyCall(p)
  \/ \E p \in Procs, t \in ClockReads(now) : ConsistencyListOk(p, t)
  \/ UpstreamChange

SpecOverlap == Init /\ [][NextOverlap]_vars

\* An outage of upstream and its end: the list calls of the first
\* MaxDownCalls reads fail, those of the later reads succeed; a detail call
\* may fail at any time; the reads come one after the other while time
\* passes.
NextRecover ==
  \/ \E p \in Procs, status \in FilterInputs, t \in ClockReads(now) :
       /\ \A q \in Procs : proc[q].pc = "idle"
       /\ Budget(MaxRecoverCalls) /\ FetchCall(p, status, t)
  \/ \E p \in Procs : calls <= MaxDownCalls /\ FetchListFails(p)
  \/ \E p \in Procs, t \in ClockReads(now) : calls > MaxDownCalls /\ FetchListOk(p, t)
  \/ \E p \in Procs : EnrichStart(p)
  \/ \E p \in Procs, i \in Ids, kind \in {"200", "non200"} : DetailReply(p, i, kind)
  \/ \E p \in Procs, t \in ClockReads(now) : FetchFinish(p, t)

SpecRecover == Init /\ [][NextRecover]_vars

\* Somebody else creates a task in the donor DB, changes its status (also to
\* one this program does not know) or removes it.
EditStatuses == {"pending", "completed", "archived", Absent}

UpstreamEdit(id, s) ==
  /\ upstream[id] # s
  /\ upstream' = [upstream EXCEPT ![id] = s]
  /\ last' = NoReturn
  /\ answer' = "none"
  /\ UNCHANGED <<cache, now, proc, dirty, calls>>

\* What upstream answers to the detail request in flight in slot i when
\* nothing else fails: the task, or 404 for one it no longer holds.
DetailAnswer(p, i) ==
  IF i \in InFlight(p) /\ upstream[proc[p].fo[i].id] = Absent THEN "non200" ELSE "200"

\* No call is in flight.
Quiet == \A q \in Procs : proc[q].pc = "idle"

\* The audit runs: unfiltered reads and consistency checks, one call at a
\* time, while the donor DB changes under them; no time passes.
NextAudit ==
  \/ \E p \in Procs : Quiet /\ Budget(MaxAuditCalls) /\ FetchCall(p, None, now)
  \/ \E p \in Procs : FetchListOk(p, now)
  \/ \E p \in Procs : EnrichStart(p)
  \/ \E p \in Procs, i \in Ids : DetailReply(p, i, DetailAnswer(p, i))
  \/ \E p \in Procs : FetchFinish(p, now)
  \/ \E p \in Procs : Quiet /\ Budget(MaxAuditCalls) /\ ConsistencyCall(p)
  \/ \E p \in Procs : ConsistencyListOk(p, now)
  \/ \E p \in Procs : ConsistencyListFails(p)
  \/ \E id \in Ids, s \in EditStatuses : UpstreamEdit(id, s)

SpecAudit == Init /\ [][NextAudit]_vars

\* The runs that fill the semaphore: the donor DB holds more tasks than the
\* semaphore admits, every call succeeds, and of the detail fetches in flight
\* the oldest is answered first (which one is answered does not change how
\* many are in flight).
InitSem ==
  /\ cache = _Cache
  /\ now = 0
  /\ upstream = [id \in 1..SemTasks |-> "pending"]
  /\ proc = [p \in Procs |-> IdleProc]
  /\ last = NoReturn
  /\ answer = "none"
  /\ dirty = FALSE
  /\ calls = 0

NextSem ==
  \/ \E p \in Procs : Budget(MaxSemCalls) /\ FetchCall(p, None, now)
  \/ \E p \in Procs : FetchListOk(p, now)
  \/ \E p \in Procs : EnrichStart(p)
  \/ \E p \in Procs : WaiterStart(p)
  \/ \E p \in Procs : InFlight(p) # {} /\ DetailReply(p, Min(InFlight(p)), "200")
  \/ \E p \in Procs : FetchFinish(p, now)

SpecSem == InitSem /\ [][NextSem]_vars

\* ------------------------------------------------------------------------
\* Mapping of arbitrary upstream records (SpecMap): get_task is called for
\* a task whose upstream record is any JSON object of the bounded set below,
\* and maps the body it is answered with.
\* ------------------------------------------------------------------------
\* A field left out of the JSON object.
Missing == "<missing>"
EmptyRecord == [k \in {} |-> k]
Field(k, v) == IF v = Missing THEN EmptyRecord ELSE k :> v

\* Contact lists upstream may send: none, a named contact, a contact without
\* file_as, a null name before a named contact, a contact without id and one
\* whose name is empty, and a contact with neither name nor id.
RawContacts ==
  << <<>>,
     <<[id |-> 10, file_as |-> "Smith"]>>,
     <<[id |-> 9]>>,
     <<[id |-> 9, file_as |-> None], [id |-> 11, file_as |-> "Doe"]>>,
     <<[file_as |-> "Lee"], [id |-> 12, file_as |-> ""]>>,
     <<[file_as |-> None]>> >>

RawStatuses == {Missing, None, "pending", "completed", "cancelled", "on_hold"}

\* The raw records: every field is there or left out; the status is one of
\* the table, another string, or null.
RawRecords ==
  { (IF i THEN "id" :> 1 ELSE EmptyRecord) @@ Field("description", d) @@ Field("status", st)
      @@ (IF c = 0 THEN EmptyRecord ELSE "contacts" :> RawContacts[c])
      @@ (IF rest THEN [task_date |-> "2024-06-01", notes |-> "Important", is_thank |-> TRUE]
                  ELSE EmptyRecord) :
      i \in BOOLEAN, d \in {Missing, "Call donor"}, st \in RawStatuses,
      c \in 0..Len(RawContacts), rest \in BOOLEAN }

InitMap ==
  /\ cache = _Cache
  /\ now = 0
  /\ upstream \in [{1} -> RawRecords]
  /\ proc = [p \in Procs |-> IdleProc]
  /\ last = NoReturn
  /\ answer = "none"
  /\ dirty = FALSE
  /\ calls = 0

\* Upstream answers get_task's request with 200 and the record it holds:
\* `return _map_task(resp.json())`, or None from `except Exception` when
\* the mapping raises; get_donor_task answers 404 for None.
GetReplyRecord(p) ==
  /\ proc[p].pc = "get"
  /\ LET raw == upstream[proc[p].id]
         task == IF MapRaises(raw) THEN NoTask ELSE _map_task(raw)
     IN  last' = [NoReturn EXCEPT !.op = "get_task", !.id = proc[p].id,
                                 !.path = IF MapRaises(raw) THEN "map_raised" ELSE "mapped",
                                 !.task = task, !.route = "get",
                                 !.code = IF task = NoTask THEN 404 ELSE 200,
                                 !.body = task]
  /\ proc' = [proc EXCEPT ![p] = IdleProc]
  /\ answer' = "get_200"
  /\ UNCHANGED <<cache, now, upstream, dirty, calls>>

NextMap ==
  \/ \E p \in Procs : Budget(MaxMapCalls) /\ GetCall(p, 1)
  \/ \E p \in Procs : GetReplyRecord(p)

SpecMap == InitMap /\ [][NextMap]_vars

\* ------------------------------------------------------------------------
\* Vocabulary of the properties
\* ------------------------------------------------------------------------
\* A status filter was given: the argument is neither None nor empty.
Given(s) == s \notin {None, ""}

\* result is exactly the tasks whose upstream status is s, in their order.
FilteredView(result, tasks, s) ==
  LET idx == {i \in 1..Len(tasks) : tasks[i].donor_status = s}
  IN  /\ Len(result) = Cardinality(idx)
      /\ \A i \in idx : result[Cardinality({j \in idx : j <= i})] = tasks[i]

\* What fetch_tasks is to return from the cached set.
ExpectedResult(result, tasks, s) ==
  IF Given(s) THEN FilteredView(result, tasks, s) ELSE result = tasks

\* The ids upstream holds now, in the order it lists them.
PresentIds(up) ==
  SelectSeq([i \in 1..Len(up) |-> i], LAMBDA i : up[i] # Absent)

SlotIds(fo) == [i \in 1..Len(fo) |-> fo[i].id]
TaskIds(tasks) == [i \in 1..Len(tasks) |-> tasks[i].donor_task_id]

\* The step just taken belongs to handler p.
Moved(p) == proc'[p] # proc[p]

\* A step of a fetch_tasks call: one that returns from it, or one that
\* leaves it in flight.
FetchStep ==
  \/ last'.op = "fetch_tasks"
  \/ \E p \in Procs : Moved(p) /\ proc'[p].op = "fetch_tasks"

\* The step in which a fetch_tasks call begins, and whether it sends the
\* list request.
FetchBegan ==
  \/ last'.op = "fetch_tasks" /\ last'.path = "fresh"
  \/ \E p \in Procs : proc[p].op = "none" /\ proc'[p].op = "fetch_tasks"
ListIssued ==
  \E p \in Procs : /\ proc[p].op = "none" /\ proc'[p].op = "fetch_tasks"
                   /\ proc'[p].req.method = "GET"
                   /\ proc'[p].req.path = "/api/v1/tasks"

\* Handler p writes the snapshot in this step; the ids its list call gave.
Commits(p) ==
  /\ proc[p].op = "fetch_tasks" /\ proc[p].pc \in {"list", "finish"}
  /\ proc'[p].pc = "idle"
  /\ last'.op = "fetch_tasks" /\ last'.path = "refreshed"
ListedIds(p) ==
  IF proc[p].pc = "list" THEN PresentIds(upstream) ELSE SlotIds(proc[p].fo)

InFlightTotal ==
  LET n(p) == Cardinality(InFlight(p))
      sum[k \in 0..NumProcs] == IF k = 0 THEN 0 ELSE sum[k - 1] + n(k)
  IN  sum[NumProcs]

\* ------------------------------------------------------------------------
\* Properties
\* ------------------------------------------------------------------------

\* C1: when the list call of a refresh fails (transport error or an error
\* status), fetch_tasks raises nothing and returns the snapshot the cache
\* held before the call was answered -- empty if it was never filled --
\* filtered by the status argument when one was given.
C1_DegradeOnListFailure ==
  [][answer' = "list_error" =>
       /\ last'.op = "fetch_tasks"
       /\ ~last'.raised
       /\ ExpectedResult(last'.tasks, cache.tasks, last'.status)]_vars

\* A failed list call answered from a filled cache, with a filter that
\* keeps some of its tasks and drops others.
C1_Witness ==
  /\ answer = "list_error"
  /\ last.op = "fetch_tasks" /\ last.status = "pending"
  /\ last.tasks # <<>>
  /\ Len(last.tasks) < Len(cache.tasks)

\* C2: a step of a fetch_tasks call that does not complete a refresh --
\* the list call failed, or mapping the records raised -- leaves tasks,
\* fetched_at and stale exactly as they were.
C2_FailedRefreshKeepsCache ==
  [][(FetchStep /\ ~(last'.op = "fetch_tasks" /\ last'.path = "refreshed"))
       => cache' = cache]_vars

\* A refresh that began because the snapshot had expired got its list and
\* its details, failed in mapping, and left the old snapshot in force.
C2_Witness ==
  /\ last.op = "fetch_tasks" /\ last.path = "degraded"
  /\ answer = "none"
  /\ ~cache.stale /\ cache.tasks # <<>>
  /\ now - cache.fetched_at >= CACHE_TTL_SECONDS

\* C3: a fetch_tasks call that is the first to begin after update_status
\* returned True sends one list request (it never serves the snapshot taken
\* before the write as fresh).
C3_FetchAfterWriteRefreshes ==
  (last.op = "fetch_tasks" /\ last.afterWrite) =>
     (last.path # "fresh" /\ last.listCalls = 1)

\* C4: a fetch_tasks call sends the list request if and only if, at the
\* clock reading it takes first, the cache is stale or the snapshot is at
\* least CACHE_TTL_SECONDS old; it sends it in its first step and never
\* again, and a call served from the fresh cache has sent none.
C4_RefreshIffStaleOrExpired ==
  [][/\ FetchBegan =>
          (ListIssued <=> (cache.stale \/ now' - cache.fetched_at >= CACHE_TTL_SECONDS))
     /\ \A p \in Procs :
          (proc[p].op = "fetch_tasks" /\ Moved(p)) => proc'[p].req = NoRequest
     /\ last'.op = "fetch_tasks" =>
          last'.listCalls = (IF last'.path = "fresh" THEN 0 ELSE 1)]_vars

\* A call that found a valid snapshot exactly CACHE_TTL_SECONDS old and
\* sent the list request.
C4_Witness ==
  \E p \in Procs :
    /\ proc[p].op = "fetch_tasks" /\ proc[p].pc = "list"
    /\ ~cache.stale
    /\ now - cache.fetched_at = CACHE_TTL_SECONDS

\* C5: whatever status filter the caller passes, the list request asks for
\* the whole list (no status parameter, limit 500), the refresh fetches a
\* detail for every task upstream listed, and the snapshot it stores has one
\* record for each of them.
C5_FilterDoesNotBiasCache ==
  [][\A p \in Procs :
       /\ (proc'[p].op = "fetch_tasks" /\ proc'[p].pc = "list") =>
             (proc'[p].req.status = None /\ proc'[p].req.limit = ListLimit)
       /\ (proc[p].op = "fetch_tasks" /\ proc[p].pc = "list" /\ Moved(p)
             /\ answer' = "list_200") =>
             IF PresentIds(upstream) = <<>>
             THEN last'.path = "refreshed" /\ cache'.tasks = <<>>
             ELSE SlotIds(proc'[p].fo) = PresentIds(upstream)
       /\ (proc[p].op = "fetch_tasks" /\ proc[p].pc = "finish" /\ Moved(p)
             /\ last'.path = "refreshed") =>
             TaskIds(cache'.tasks) = SlotIds(proc[p].fo)]_vars

\* A refresh called with a filter returned the matching task only and
\* stored both.
C5_Witness ==
  /\ last.op = "fetch_tasks" /\ last.path = "refreshed"
  /\ last.status = "pending"
  /\ Len(last.tasks) = 1 /\ Len(cache.tasks) = 2
  /\ \E i \in 1..2 : cache.tasks[i].donor_status # "pending"

\* C6: on each of its paths (fresh, refreshed, degraded) fetch_tasks returns
\* the cached set as it is when the call returns: all of it when no filter
\* is given, exactly the tasks whose donor_status equals the filter, in
\* cache order, when one is.  A filter is given when the argument is a
\* non-empty string; None and "" both mean no filter.
C6_ResultIsFilteredCache ==
  last.op = "fetch_tasks" => ExpectedResult(last.tasks, cache.tasks, last.status)

\* The fresh path with a filter that keeps one task of two.
C6_Witness ==
  /\ last.op = "fetch_tasks" /\ last.path = "fresh"
  /\ last.status = "pending"
  /\ Len(last.tasks) = 1 /\ Len(cache.tasks) = 2

\* C7: under every interleaving, the cached list changes only in the one
\* step in which a refresh stores its result, and what it stores is the
\* mapped records of the tasks of that refresh's own list answer, one each
\* and in order; every fetch_tasks result is taken from one such snapshot.
C7_AtomicSnapshotReplacement ==
  [][/\ cache'.tasks # cache.tasks =>
          \E p \in Procs : /\ Moved(p) /\ Commits(p)
                           /\ TaskIds(cache'.tasks) = ListedIds(p)
     /\ last'.op = "fetch_tasks" =>
          ExpectedResult(last'.tasks, cache'.tasks, last'.status)]_vars

\* A refresh replaced a two-task snapshot by a one-task one while another
\* refresh was awaiting its details.
C7_Witness ==
  /\ last.op = "fetch_tasks" /\ last.path = "refreshed"
  /\ Len(cache.tasks) = 1
  /\ \E p \in Procs : proc[p].pc \in {"enrich", "finish"} /\ Len(proc[p].fo) = 2

\* C8 as stated: over all refreshes running at the same time, at most
\* SemaphoreLimit detail fetches are in flight.
C8_AtMostLimitInFlightOverall == InFlightTotal <= SemaphoreLimit

\* C8 as the code has it: each refresh has its own semaphore, so each has
\* at most SemaphoreLimit detail fetches in flight however many tasks were
\* listed, and the refreshes together at most that many each.
C8_AtMostLimitInFlightPerRefresh ==
  /\ \A p \in Procs : Cardinality(InFlight(p)) <= SemaphoreLimit
  /\ InFlightTotal <=
       SemaphoreLimit * Cardinality({p \in Procs : proc[p].pc = "enrich"})

\* A refresh with the semaphore exhausted and a detail fetch queued on it.
C8_Witness ==
  \E p \in Procs : /\ Cardinality(InFlight(p)) = SemaphoreLimit
                   /\ Waiting(p) # {}
                   /\ proc[p].sem = 0

\* C9: a detail fetch that fails (transport error or a status other than
\* 200) changes nothing but its own task, which keeps its list-level record;
\* the refresh goes on, and when its records can be mapped it stores one
\* record per listed task: without contacts in the title where the detail
\* failed, with the contacts of its own detail where it succeeded.
C9_PerTaskDegradation ==
  [][\A p \in Procs :
       /\ (proc[p].pc = "enrich" /\ Moved(p)
             /\ answer' \in {"detail_non200", "detail_exception"}) =>
             /\ proc'[p].op = "fetch_tasks"
             /\ last' = NoReturn /\ cache' = cache
             /\ \E i \in InFlight(p) :
                  proc'[p].fo = [proc[p].fo EXCEPT ![i].st = "done", ![i].how = "fallback"]
       /\ (proc[p].pc = "finish" /\ Moved(p)
             /\ \A i \in 1..Len(proc[p].fo) : "id" \in DOMAIN proc[p].fo[i].val) =>
             /\ last'.path = "refreshed"
             /\ Len(cache'.tasks) = Len(proc[p].fo)
             /\ \A i \in 1..Len(proc[p].fo) :
                  LET slot == proc[p].fo[i]
                      task == cache'.tasks[i]
                  IN  /\ task.donor_task_id = slot.id
                      /\ task.donor_status = slot.val.status
                      /\ slot.how = "fallback" => task.title = slot.val.description
                      /\ slot.how = "detail" =>
                           task.title = _build_title(slot.val.description,
                                                     ContactsOf(slot.id))]_vars

\* A stored snapshot in which the first task fell back to its list-level
\* record and the second carries the contacts of its detail.
C9_Witness ==
  /\ last.op = "fetch_tasks" /\ last.path = "refreshed"
  /\ Len(cache.tasks) = 2
  /\ cache.tasks[1].title = "Call donor"
  /\ cache.tasks[2].title = "Call donor - 9 & Doe"

\* C10: the cache starts stale; every update_status that returns True
\* leaves it stale; and stale is cleared only in the step in which a refresh
\* whose list call succeeded stores its snapshot and timestamp.
C10_StaleFlag ==
  /\ cache.stale
  /\ [][/\ (last'.op = "update_status" /\ last'.ok) => cache'.stale
        /\ (cache.stale /\ ~cache'.stale) =>
             /\ \E p \in Procs : /\ Moved(p) /\ Commits(p)
                                 /\ TaskIds(cache'.tasks) = ListedIds(p)
             /\ cache'.fetched_at = now']_vars

\* update_status has just returned True over a filled cache, now stale.
C10_Witness ==
  /\ last.op = "update_status" /\ last.ok
  /\ cache.stale /\ cache.tasks # <<>>
  /\ cache.fetched_at > 0

\* The local statuses that have an upstream equivalent.
SupportedGtd == {"completed", "deleted"}

\* No handler has a request in flight that it did not have before the step.
NoNewRequest ==
  \A p \in Procs : proc'[p].req = NoRequest \/ proc'[p].req = proc[p].req

\* C11: a local status other than completed or deleted is rejected at once:
\* update_status returns False and PATCH /donor-tasks/{id}/status answers
\* 422, in the step of the call itself, with no request sent upstream and
\* the cache and the donor DB as they were; no update_status is ever in
\* flight for such a status.
C11_UnsupportedStatusRejected ==
  [][/\ \A p \in Procs :
          proc'[p].op = "update_status" => proc'[p].status \in SupportedGtd
     /\ (last'.op = "update_status" /\ last'.status \notin SupportedGtd) =>
          /\ ~last'.ok
          /\ calls' = calls + 1
          /\ NoNewRequest
          /\ cache' = cache /\ upstream' = upstream
     /\ (last'.route = "patch" /\ last'.status \notin SupportedGtd) =>
          /\ last'.code = 422 /\ last'.body = NoTask
          /\ calls' = calls + 1
          /\ NoNewRequest
          /\ cache' = cache /\ upstream' = upstream]_vars

\* update_status has just refused "inbox" over a valid, filled cache.
C11_Witness ==
  /\ last.op = "update_status" /\ last.status = "inbox" /\ ~last.ok
  /\ last.route = "none"
  /\ ~cache.stale /\ cache.tasks # <<>>

\* A step of an update_status call, made directly or by the PATCH endpoint.
UpdateStep ==
  \/ last'.op = "update_status"
  \/ \E p \in Procs : Moved(p) /\ proc'[p].op = "update_status"

\* C12: when the upstream write fails (no answer, or an answer outside 2xx)
\* update_status returns False and leaves tasks, fetched_at and stale as they
\* were; a step of update_status changes the cache only when its write
\* succeeded, and then only by setting stale.
C12_FailedWriteKeepsCache ==
  [][/\ answer' = "write_error" =>
          (last'.op = "update_status" /\ ~last'.ok /\ cache' = cache)
     /\ (UpdateStep /\ cache' # cache) =>
          /\ answer' = "write_2xx" /\ last'.ok
          /\ cache' = [cache EXCEPT !.stale = TRUE]]_vars

\* A write has just failed over a valid, filled cache, which is still valid.
C12_Witness ==
  /\ answer = "write_error"
  /\ last.op = "update_status" /\ ~last.ok /\ last.route = "none"
  /\ ~cache.stale /\ cache.tasks # <<>>

\* C13: the PATCH endpoint answers 200 only from its re-fetch, which it
\* reaches only in the step in which its upstream write succeeded; when the
\* write fails it answers 502 with no task record and is over.
C13_WriteStrictness ==
  [][\A p \in Procs :
       /\ (Moved(p) /\ last'.route = "patch" /\ last'.code = 200) =>
             proc[p].pc = "patch_refetch"
       /\ (proc'[p].pc = "patch_refetch" /\ proc[p].pc # "patch_refetch") =>
             /\ answer' = "write_2xx"
             /\ last'.op = "update_status" /\ last'.ok
             /\ upstream'[proc'[p].id] = GTD_TO_DONOR_STATUS[proc'[p].status]
       /\ (Moved(p) /\ proc[p].route = "patch" /\ answer' = "write_error") =>
             /\ last'.code = 502 /\ last'.body = NoTask
             /\ proc'[p].pc = "idle"]_vars

\* The endpoint has just answered 502 to a failed write.
C13_Witness ==
  /\ answer = "write_error"
  /\ last.route = "patch" /\ last.code = 502 /\ last.body = NoTask
  /\ last.status = "completed"

\* C14: update_status sends one upstream request, in the step in which it
\* is called with a supported status, and none later: POST
\* /api/v1/tasks/{id}/complete for completed, PUT /api/v1/tasks/{id} with
\* status cancelled in the body for deleted; a successful write changes that
\* one task upstream, to completed or to cancelled.
C14_WriteRouting ==
  [][\A p \in Procs :
       /\ (proc[p].op = "none" /\ proc'[p].op = "update_status") =>
             proc'[p].req =
               (IF proc'[p].status = "completed"
                THEN [method |-> "POST", path |-> "/api/v1/tasks/{id}/complete",
                      id |-> proc'[p].id, limit |-> 0, status |-> None, body |-> None]
                ELSE [method |-> "PUT", path |-> "/api/v1/tasks/{id}",
                      id |-> proc'[p].id, limit |-> 0, status |-> None,
                      body |-> "cancelled"])
       /\ (proc[p].op = "update_status" /\ Moved(p)) =>
             proc'[p].req.method \notin {"POST", "PUT"}
       /\ proc'[p].req.method \in {"POST", "PUT"} => proc'[p].op = "update_status"
       /\ (proc[p].op = "update_status" /\ Moved(p) /\ answer' = "write_2xx") =>
             upstream' = [upstream EXCEPT ![proc[p].id] =
                            IF proc[p].status = "completed" THEN "completed"
                            ELSE "cancelled"]]_vars

\* update_status(id, "deleted") has just returned True and the task is
\* cancelled upstream.
C14_Witness ==
  /\ last.op = "update_status" /\ last.ok /\ last.status = "deleted"
  /\ last.id \in DOMAIN upstream /\ upstream[last.id] = "cancelled"

\* toLocal: the local status of an upstream status.
ToLocal(donor_status) == Get(DONOR_TO_GTD_STATUS, donor_status, "next_action")

\* C15: after a successful write the PATCH endpoint answers 200.  When the
\* re-fetch gives nothing (404, another error status, no answer, a body that
\* is no task record) the record it returns is made from the request: its
\* donor_task_id is the requested id, its status the requested local status,
\* its donor_status that status's upstream equivalent, so that
\* toLocal(donor_status) = status.  When the re-fetch answers the task, the
\* record returned is that task as upstream holds it now.
C15_PatchResult ==
  [][\A p \in Procs :
       (proc[p].pc = "patch_refetch" /\ Moved(p)) =>
          /\ last'.route = "patch" /\ last'.code = 200
          /\ IF answer' = "get_200"
             THEN /\ last'.body = last'.task
                  /\ last'.body.donor_task_id = proc[p].id
                  /\ last'.body.donor_status = upstream[proc[p].id]
                  /\ last'.body.status = ToLocal(upstream[proc[p].id])
                  /\ last'.body.title =
                       _build_title("Call donor", ContactsOf(proc[p].id))
             ELSE /\ last'.task = NoTask
                  /\ last'.body.donor_task_id = proc[p].id
                  /\ last'.body.status = proc[p].status
                  /\ last'.body.donor_status = GTD_TO_DONOR_STATUS[proc[p].status]
                  /\ ToLocal(last'.body.donor_status) = last'.body.status
                  /\ last'.body.source = "donor_db"]_vars

\* The endpoint has just answered a delete whose re-fetch gave nothing with
\* the record made from the request.
C15_Witness ==
  /\ last.route = "patch" /\ last.code = 200 /\ last.task = NoTask
  /\ last.status = "deleted"
  /\ last.body.status = "deleted" /\ last.body.donor_status = "cancelled"

\* C16: get_task gives None, and GET /donor-tasks/{id} answers 404, only
\* when upstream answered 404 for that id; a failed call (network error,
\* timeout, another status outside 2xx) gives another outcome.
C16_NotFoundDistinguished ==
  (last.op = "get_task" /\ (last.task = NoTask \/ last.code = 404)) =>
     answer = "get_404"

\* C17: get_task goes to upstream whatever the cache holds: the step in
\* which it begins sends the detail request for the requested id, also when
\* the cache is fresh and holds that id; it sends no other request; its
\* result is the task as upstream holds it now, or None; and its steps leave
\* tasks, fetched_at and stale as they were.
C17_GetTaskBypassesCache ==
  [][/\ last'.op = "get_task" =>
          \E p \in Procs : /\ Moved(p) /\ proc[p].op = "get_task"
                           /\ proc[p].req = DetailRequest(last'.id)
     /\ \A p \in Procs :
       /\ (proc[p].op # "get_task" /\ proc'[p].op = "get_task") =>
             proc'[p].req = DetailRequest(proc'[p].id)
       /\ (proc[p].op = "none" /\ proc'[p].op = "get_task") => cache' = cache
       /\ (proc[p].op = "get_task" /\ Moved(p)) =>
             /\ cache' = cache
             /\ proc'[p].pc = "idle"
             /\ last'.op = "get_task" /\ last'.id = proc[p].id
             /\ IF answer' = "get_200"
                THEN /\ last'.task.donor_task_id = proc[p].id
                     /\ last'.task.donor_status = upstream[proc[p].id]
                ELSE last'.task = NoTask]_vars

\* get_task has just found upstream without a task that the fresh cache
\* still holds.
C17_Witness ==
  /\ last.op = "get_task" /\ last.route = "get"
  /\ answer = "get_404" /\ last.task = NoTask
  /\ IsFresh(cache, now)
  /\ \E i \in 1..Len(cache.tasks) : cache.tasks[i].donor_task_id = last.id

\* The cache shows that a refresh has stored a snapshot at some time: it
\* holds tasks, or a timestamp, or is not stale (only a refresh sets these).
ShowsRefresh(c) == c.tasks # <<>> \/ c.fetched_at > 0 \/ ~c.stale

\* C18: check_consistency reports cache_populated = false only when no
\* refresh has ever stored a snapshot; once one has, whatever update_status
\* calls followed, it compares against a live list and reports
\* cache_populated = true.
C18_PopulatedOnceRefreshed ==
  last.op = "check_consistency" =>
     (last.report.cache_populated <=> ShowsRefresh(cache))

\* C19: when the live list call of check_consistency fails, the call
\* raises nothing and returns a report with cache_populated = true,
\* checked_count = 0, no inconsistency entry, and the error in its error
\* field.
C19_LiveFailureReported ==
  answer = "live_error" =>
     /\ last.op = "check_consistency" /\ ~last.raised
     /\ DOMAIN last.report =
          {"cache_populated", "checked_count", "inconsistencies", "error"}
     /\ last.report.cache_populated
     /\ last.report.checked_count = 0
     /\ last.report.inconsistencies = <<>>
     /\ last.report.error = "str(exc)"

\* The live call has just failed for a check over a valid cache of two tasks.
C19_Witness ==
  /\ answer = "live_error"
  /\ last.op = "check_consistency"
  /\ ~cache.stale /\ Len(cache.tasks) = 2

\* The drift entries of a report: those that name a live status.
DriftEntries(report) ==
  SelectSeq(report.inconsistencies, LAMBDA e : e.live_status # "missing_from_live")

\* C20: when the live list call of check_consistency succeeds, the report
\* holds a drift entry for a live task if and only if the snapshot the check
\* began with holds its id and the local status of its live upstream status
\* differs from the cached local status; it holds one such entry, recording
\* the cached and the live local status; checked_count is the number of live
\* tasks; and when every cached task is live with an equal local status the
\* inconsistency list is empty.
C20_DriftDetection ==
  [][\A p \in Procs :
       (proc[p].pc = "check" /\ Moved(p) /\ answer' = "live_200") =>
          LET cached == proc[p].cached
              report == last'.report
              drift == DriftEntries(report)
              live == {id \in DOMAIN upstream : upstream[id] # Absent}
              held(id) == \E i \in 1..Len(cached) : cached[i].donor_task_id = id
              differs(id) ==
                \E i \in 1..Len(cached) : /\ cached[i].donor_task_id = id
                                          /\ cached[i].status # ToLocal(upstream[id])
              entries(id) == {k \in 1..Len(drift) : drift[k].donor_task_id = id}
          IN  /\ last'.op = "check_consistency"
              /\ report.cache_populated
              /\ report.checked_count = Cardinality(live)
              /\ \A k \in 1..Len(drift) : drift[k].donor_task_id \in live
              /\ \A id \in live :
                   IF held(id) /\ differs(id)
                   THEN /\ Cardinality(entries(id)) = 1
                        /\ \A k \in entries(id) :
                             /\ drift[k].live_status = ToLocal(upstream[id])
                             /\ \E i \in 1..Len(cached) :
                                  /\ cached[i].donor_task_id = id
                                  /\ drift[k].cached_status = cached[i].status
                   ELSE entries(id) = {}
              /\ (\A i \in 1..Len(cached) :
                    /\ cached[i].donor_task_id \in live
                    /\ cached[i].status = ToLocal(upstream[cached[i].donor_task_id]))
                 => report.inconsistencies = <<>>]_vars

\* A report over two live tasks with one drift entry: the task cached as
\* next_action is completed upstream, the other is as cached.
C20_Witness ==
  /\ last.op = "check_consistency" /\ answer = "live_200"
  /\ last.report.checked_count = 2
  /\ last.report.inconsistencies =
       <<[donor_task_id |-> 1, cached_status |-> "next_action",
          live_status |-> "completed"]>>

\* The entries of a report that say a cached task is gone upstream.
MissingEntries(report) ==
  SelectSeq(report.inconsistencies, LAMBDA e : e.live_status = "missing_from_live")

\* C21: when the live list call of check_consistency succeeds, the report
\* holds exactly one entry with live_status = missing_from_live, carrying
\* the cached local status, for every task of the snapshot the check began
\* with that the live list does not hold, and no such entry for any other id.
C21_MissingFromLive ==
  [][\A p \in Procs :
       (proc[p].pc = "check" /\ Moved(p) /\ answer' = "live_200") =>
          LET cached == proc[p].cached
              missing == MissingEntries(last'.report)
              live == {id \in DOMAIN upstream : upstream[id] # Absent}
              gone == {i \in 1..Len(cached) : cached[i].donor_task_id \notin live}
          IN  /\ Len(missing) = Cardinality(gone)
              /\ \A i \in gone :
                   \E k \in 1..Len(missing) :
                      /\ missing[k].donor_task_id = cached[i].donor_task_id
                      /\ missing[k].cached_status = cached[i].status
              /\ \A k \in 1..Len(missing) : missing[k].donor_task_id \notin live]_vars

\* A report over a snapshot of two tasks of which upstream now holds only
\* the second: one entry, for the first.
C21_Witness ==
  /\ last.op = "check_consistency" /\ answer = "live_200"
  /\ last.report.checked_count = 1
  /\ last.report.inconsistencies =
       <<[donor_task_id |-> 1, cached_status |-> "next_action",
          live_status |-> "missing_from_live"]>>

\* A step of a check_consistency call.
ConsistencyStep ==
  \/ last'.op = "check_consistency"
  \/ \E p \in Procs : Moved(p) /\ proc'[p].op = "check_consistency"

\* C22: no step of check_consistency changes tasks, fetched_at or stale, or
\* the donor DB; the only request it ever has in flight is the one list
\* request it sends when it begins, it has no detail fetch in flight, and
\* when that request is answered it returns.
C22_ConsistencyReadOnly ==
  [][/\ ConsistencyStep => (cache' = cache /\ upstream' = upstream)
     /\ \A p \in Procs :
          /\ proc'[p].op = "check_consistency" =>
                /\ proc'[p].req = [method |-> "GET", path |-> "/api/v1/tasks", id |-> 0,
                                   limit |-> ListLimit, status |-> None, body |-> None]
                /\ proc'[p].fo = <<>>
                /\ (Moved(p) => proc[p].op = "none")
          /\ (proc[p].op = "check_consistency" /\ Moved(p)) =>
                (proc'[p] = IdleProc /\ last'.op = "check_consistency")]_vars

\* check_consistency has just reported an inconsistency and the cache is
\* still the valid snapshot it compared.
C22_Witness ==
  /\ last.op = "check_consistency" /\ answer = "live_200"
  /\ last.report.inconsistencies # <<>>
  /\ ~cache.stale /\ Len(cache.tasks) = 2

\* Upstream answers that are transport failures: no answer at all, or an
\* answer with an error status.
TransportFailures ==
  {"list_error", "detail_non200", "detail_exception", "write_error", "live_error",
   "get_non2xx", "get_exception"}

\* C23: whichever upstream call fails in transport, nothing is raised: a
\* failed list call makes fetch_tasks return tasks, a failed detail call
\* lets the refresh go on, a failed write makes update_status return False,
\* a failed detail call of get_task makes it return None, and a failed live
\* call makes check_consistency return a report with an error field.
C23_NoExceptionOnTransportFailure ==
  [][answer' \in TransportFailures =>
       /\ ~last'.raised
       /\ answer' = "list_error" => (last'.op = "fetch_tasks" /\ last'.path # "raised")
       /\ answer' \in {"detail_non200", "detail_exception"} =>
            /\ last' = NoReturn
            /\ \E p \in Procs : Moved(p) /\ proc'[p].pc \in {"enrich", "finish"}
       /\ answer' = "write_error" => (last'.op = "update_status" /\ ~last'.ok)
       /\ answer' \in {"get_non2xx", "get_exception"} =>
            (last'.op = "get_task" /\ last'.task = NoTask)
       /\ answer' = "live_error" =>
            (last'.op = "check_consistency" /\ "error" \in DOMAIN last'.report)]_vars

\* The live call of check_consistency has failed and a report came back.
C23_Witness ==
  /\ answer = "live_error"
  /\ last.op = "check_consistency" /\ ~last.raised
  /\ last.report.error = "str(exc)"
  /\ Len(cache.tasks) = 2

\* The record get_task was answered with in the step just taken by p.
RawOf(p) == upstream[proc[p].id]

\* The record names its task and every contact that has no display name
\* names itself: it has an id, and so has each contact whose file_as is
\* missing, null or empty.
Identified(raw) ==
  /\ "id" \in DOMAIN raw
  /\ "contacts" \in DOMAIN raw =>
       \A i \in 1..Len(raw.contacts) :
          LET c == raw.contacts[i]
          IN  ("file_as" \in DOMAIN c /\ c.file_as \notin {None, ""}) \/ "id" \in DOMAIN c

\* get_task of process p has just mapped a record.
Mapped(p) == proc[p].pc = "get" /\ Moved(p) /\ answer' = "get_200"

\* C24: the mapped status is next_action for pending, completed for
\* completed, deleted for cancelled, and next_action for any other string,
\* for null and for a record without status; the status never makes the
\* mapping fail and the mapped status is never null; donor_status is the
\* upstream status as it came (None when there was none).
C24_StatusMappingTotal ==
  [][\A p \in Procs : Mapped(p) =>
       LET raw == RawOf(p)
           given == "status" \in DOMAIN raw
           t == last'.task
       IN  /\ Identified(raw) => t # NoTask
           /\ t # NoTask =>
                /\ t.status = CASE given /\ raw.status = "pending"   -> "next_action"
                                [] given /\ raw.status = "completed" -> "completed"
                                [] given /\ raw.status = "cancelled" -> "deleted"
                                [] OTHER                             -> "next_action"
                /\ t.status # None
                /\ t.donor_status = IF given THEN raw.status ELSE None]_vars

\* A record with a status outside the table has been mapped.
C24_Witness ==
  /\ last.op = "get_task" /\ last.path = "mapped"
  /\ last.task # NoTask
  /\ last.task.donor_status = "on_hold"
  /\ last.task.status = "next_action"

\* The display name of a contact that has one, its id as a string otherwise.
DisplayName(c) ==
  IF "file_as" \in DOMAIN c /\ c.file_as # None THEN c.file_as ELSE ToString(c.id)

\* The description, then " - " before the first name and " & " before each
\* later one, in the order given.
RECURSIVE TitleUpTo(_, _, _)
TitleUpTo(description, contacts, n) ==
  IF n = 0 THEN description
  ELSE TitleUpTo(description, contacts, n - 1)
         \o (IF n = 1 THEN " - " ELSE " & ") \o DisplayName(contacts[n])

\* No contact of the list has the empty string for its display name.
NoEmptyName(contacts) ==
  \A i \in 1..Len(contacts) : Get(contacts[i], "file_as", None) # ""

C26_MapTaskNeverFails ==
  (last.op = "get_task" /\ answer = "get_200") =>
     (last.path # "map_raised" /\ last.task # NoTask)

\* C26 as the code has it: a record that has an id, and whose contacts
\* without display name have one, is mapped without error whichever other
\* fields it lacks: donor_task_id is its id, source is donor_db, a missing
\* date or notes is None, a missing flag False, a missing description the
\* empty string, a missing contact list no contacts.  For any other record
\* the mapping raises KeyError.
C26_MapTaskTotalOnIdentified ==
  [][\A p \in Procs : Mapped(p) =>
       LET raw == RawOf(p)
           t == last'.task
           has(k) == k \in DOMAIN raw
       IN  /\ Identified(raw) <=> t # NoTask
           /\ Identified(raw) <=> last'.path = "mapped"
           /\ t # NoTask =>
                /\ t.donor_task_id = raw.id
                /\ t.source = "donor_db"
                /\ t.task_date = IF has("task_date") THEN raw.task_date ELSE None
                /\ t.notes = IF has("notes") THEN raw.notes ELSE None
                /\ t.is_thank = IF has("is_thank") THEN raw.is_thank ELSE FALSE
                /\ (~has("description") /\ ~has("contacts")) => t.title = ""
                /\ (has("description") /\ ~has("contacts")) => t.title = raw.description
                /\ DOMAIN t = {"donor_task_id", "title", "status", "donor_status",
                               "task_date", "notes", "is_thank", "source"}]_vars

\* A record that holds nothing but its id has been mapped.
C26_Witness ==
  /\ last.op = "get_task" /\ last.path = "mapped"
  /\ last.task = [donor_task_id |-> 1, title |-> "", status |-> "next_action",
                  donor_status |-> None, task_date |-> None, notes |-> None,
                  is_thank |-> FALSE, source |-> "donor_db"]

\* C27: when a refresh stores its snapshot and an update_status has returned
\* True since that refresh sent its list request (no fetch_tasks has begun
\* since the write), the cache is stale after the store.
C27_WriteDuringRefreshKeepsStale ==
  [][\A p \in Procs : (Moved(p) /\ Commits(p) /\ dirty) => cache'.stale]_vars

\* C28: tasks only leave the donor DB in these runs, so of two list responses
\* the one with more tasks is the older; a refresh never replaces a stored
\* snapshot by one built from an older list response.
C28_LaterListWins ==
  [][\A p \in Procs :
       (Moved(p) /\ Commits(p) /\ cache.tasks # <<>>) =>
          ~(/\ CachedIds(cache.tasks) \subseteq CachedIds(cache'.tasks)
            /\ CachedIds(cache.tasks) # CachedIds(cache'.tasks))]_vars

\* C30: the cache_age_seconds of a report is the age, at the clock reading
\* of the report, of the snapshot whose tasks check_consistency indexed and
\* compared, also when a refresh replaced the cache while the live list was
\* awaited.
C30_ReportOfOneSnapshot ==
  [][\A p \in Procs :
       (proc[p].pc = "check" /\ Moved(p) /\ answer' = "live_200") =>
          last'.report.cache_age_seconds = now' - proc[p].cachedAt]_vars

\* At clock reading t the cache requires a refresh: it is stale, or its
\* snapshot is CACHE_TTL_SECONDS old or older.
NeedsRefresh(c, t) == c.stale \/ t - c.fetched_at >= CACHE_TTL_SECONDS

\* C29: a refresh whose list call fails leaves stale and fetched_at as they
\* were, so a cache that required a refresh still requires one; it goes on
\* requiring one until a refresh stores a snapshot; every read that begins
\* while it requires one sends the list request; and a read whose list call
\* succeeds (and is answered with records that carry their ids) ends by
\* storing the listed tasks as the snapshot, with the timestamp of that
\* moment and stale cleared.
C29_Recovery ==
  [][/\ answer' = "list_error" =>
          /\ cache'.stale = cache.stale /\ cache'.fetched_at = cache.fetched_at
          /\ cache'.tasks = cache.tasks
          /\ NeedsRefresh(cache, now) => NeedsRefresh(cache', now')
     /\ (NeedsRefresh(cache, now) /\ ~NeedsRefresh(cache', now')) =>
          \E p \in Procs : Moved(p) /\ Commits(p)
     /\ (FetchBegan /\ NeedsRefresh(cache, now')) => ListIssued
     /\ \A p \in Procs :
          (/\ proc[p].op = "fetch_tasks" /\ Moved(p) /\ proc'[p].pc = "idle"
           /\ answer' # "list_error"
           /\ \A i \in 1..Len(proc[p].fo) : Identified(proc[p].fo[i].val)) =>
             /\ last'.op = "fetch_tasks" /\ last'.path = "refreshed"
             /\ TaskIds(cache'.tasks) = ListedIds(p)
             /\ cache'.fetched_at = now'
             /\ ~cache'.stale]_vars

\* The first read after the outage has stored its snapshot: the cache was
\* stale and empty through the failed read before it.
C29_Witness ==
  /\ calls = MaxDownCalls + 1
  /\ last.op = "fetch_tasks" /\ last.path = "refreshed" /\ last.listCalls = 1
  /\ ~cache.stale /\ cache.fetched_at = now /\ now > 0
  /\ Len(cache.tasks) = 2

====
